---- MODULE Spec2Model ----
\* OllamaMate (src/OllamaMate.py): a Tk window (class OllamaUI) whose UI thread
\* runs the event handlers and the callbacks scheduled with self.after, and one
\* daemon thread per submitted prompt running OllamaUI.stream_response.
\*
\* Text is modelled as a sequence of symbols: " " is a blank, "\n" a newline,
\* "You:" / "Ollama:" the two prefixes, "p<k>" the body of the k-th prompt the
\* user types, "f<w>.<n>" the fragment carried by the n-th line of the stream
\* answering submission w, and "[... Error]" the text of an error message.
\*
\* Spec is the whole program. Its claims are checked under specifications whose
\* behaviours are behaviours of Spec: SpecChat, the conversation with up to
\* MaxSubmits overlapping submissions; SpecTalk, that conversation without
\* Clear Chat; and SpecSingle, every handler and input around one submission.
\* FairTalk and FairSingle add the scheduling that liveness relies on.
EXTENDS Integers, Sequences, FiniteSets, TLC

\* ---------------------------------------------------------------- bounds
MaxSubmits == 2      \* prompts accepted by send_prompt (one worker thread each)
MaxLines == 2        \* lines the server delivers, over all generate streams
MaxQueue == 2        \* callbacks scheduled with self.after and not yet run

VARIABLES
    ui,                  \* "init" (inside __init__), "mainloop", "closed"
    values,              \* self.model_dropdown['values']
    model_var,           \* self.model_var ("" when unset)
    active_model,        \* self.active_model ("None" when unset)
    prompt_entry,        \* content of self.prompt_entry
    chat_log,            \* self.chat_log
    current_stream_text, \* self.current_stream_text
    output_box,          \* content of self.output_box
    box_state,           \* state of self.output_box: "normal" / "disabled"
    queue,               \* callbacks scheduled with self.after(0, ...), in order
    workers,             \* the stream_response threads, by submission number
    nsub,                \* number of threads started so far
    event                \* what the step just taken showed the user: the handler
                         \* that ran, the messagebox it raised, the text it wrote
                         \* to the export file (NoEvent for any other step)

vars == <<ui, values, model_var, active_model, prompt_entry, chat_log,
          current_stream_text, output_box, box_state, queue, workers, nsub,
          event>>

registry == <<values, model_var, active_model>>

NoEvent == [op |-> "none", dialog |-> "none", wrote |-> <<>>]
Event(op, dialog) == [op |-> op, dialog |-> dialog, wrote |-> <<>>]

\* ---------------------------------------------------------------- text
Blank == " "
NL == "\n"

\* str.strip(): drop leading and trailing whitespace.
RECURSIVE LStrip(_)
LStrip(s) == IF s # <<>> /\ Head(s) = Blank THEN LStrip(Tail(s)) ELSE s

RECURSIVE RStrip(_)
RStrip(s) ==
    IF s # <<>> /\ s[Len(s)] = Blank THEN RStrip(SubSeq(s, 1, Len(s) - 1)) ELSE s

StripNone(s) == s

Strip(s) == RStrip(LStrip(s))

\* The body of the k-th prompt and the fragment of line n of stream w.
PromptText(k) == "p" \o ToString(k)
Tok(w, n) == "f" \o ToString(w) \o "." \o ToString(n)

\* What the user may type into the entry before the k-th submission.
PromptInputs(k) == { <<Blank, Blank>>, <<Blank, PromptText(k), Blank>> }

\* ---------------------------------------------------------------- registry
NoModel == ""
NoneModel == "None"
\* What GET /api/tags may answer: a listing, or one of the failures fetch_models
\* catches (no connection, an error status, an undecodable body, anything else).
Listings == { <<>>, <<"m1", "m2">> }
FetchFailures == { "ConnectionError", "HTTPError", "JSONDecodeError", "Exception" }
FetchResponses == FetchFailures \cup Listings

FetchDialog(resp) ==
    CASE resp = "ConnectionError" -> "Connection Error"
      [] resp = "HTTPError"       -> "API Error"
      [] resp = "JSONDecodeError" -> "JSON Error"
      [] resp = "Exception"       -> "Model Fetch Error"
      [] OTHER                    -> "none"

FetchModelsFallback(resp, reg) ==
    IF resp \in FetchFailures
    THEN [values |-> <<"m1">>, model_var |-> "m1",
          active_model |-> "m1", dialog |-> FetchDialog(resp)]
    ELSE [values |-> resp,
          model_var |-> IF resp # <<>> THEN resp[1] ELSE reg.model_var,
          active_model |-> IF resp # <<>> THEN resp[1] ELSE reg.active_model,
          dialog |-> "none"]

FetchModelsDefault(resp, reg) ==
    IF resp \in FetchFailures
    THEN [values |-> reg.values, model_var |-> reg.model_var,
          active_model |-> reg.active_model, dialog |-> FetchDialog(resp)]
    ELSE [values |-> resp,
          model_var |-> IF resp # <<>> THEN resp[1] ELSE "m1",
          active_model |-> IF resp # <<>> THEN resp[1] ELSE "m1",
          dialog |-> "none"]

\* fetch_models with the response resp, from the registry state reg: the
\* registry state it leaves and the messagebox it raises.
FetchModels(resp, reg) ==
    IF resp \in FetchFailures
    THEN [values |-> reg.values, model_var |-> reg.model_var,
          active_model |-> reg.active_model, dialog |-> FetchDialog(resp)]
    ELSE [values |-> resp,
          model_var |-> IF resp # <<>> THEN resp[1] ELSE reg.model_var,
          active_model |-> IF resp # <<>> THEN resp[1] ELSE reg.active_model,
          dialog |-> "none"]

Reg == [values |-> values, model_var |-> model_var, active_model |-> active_model]

\* ---------------------------------------------------------------- output box
\* if self.output_box.index("end-1c") != "1.0": insert("end", "\n")
Sep(box) == IF box # <<>> THEN <<NL>> ELSE <<>>

\* append_entry_to_chat_box
AppendEntry(box, prefix, message, is_streaming_start) ==
    box \o Sep(box) \o <<prefix, NL>>
        \o (IF is_streaming_start THEN <<>> ELSE message \o <<NL>>)

\* update_output_box_streaming
InsertToken(box, token) == box \o token

ReplaceTurnWithError(box, text) ==
    LET hs == { i \in 1..Len(box) : box[i] = "Ollama:" }
        h == IF hs = {} THEN Len(box) + 1
             ELSE CHOOSE i \in hs : \A j \in hs : j <= i
    IN  SubSeq(box, 1, h - 1) \o <<text>>

\* append_error_message
AppendError(box, text) == box \o Sep(box) \o <<text>>

\* export_log: the content of the chosen file, which held `file`, after
\* open(file_path, "w") and f.write(self.chat_log).
ExportAppend(file, log) == file \o log

ExportWrite(file, log) == log

\* What the file the user picks may hold beforehand.
OldFiles == { <<>>, <<"old">> }

\* ---------------------------------------------------------------- workers
WorkerIds == 1..MaxSubmits
\* pc: where the thread is in stream_response; n: lines its stream delivered;
\* token, tmp: its locals; err: the exception it caught ("posted" once the
\* except clause has scheduled the error message); got: the fragments it has
\* received; fin: whether it has received a line with "done": true (got and fin
\* are kept to state the claims, the code does not keep them).
Unused == [pc |-> "unused", model |-> NoModel, prompt |-> <<>>, n |-> 0,
           token |-> <<>>, tmp |-> <<>>, err |-> "none", got |-> <<>>,
           fin |-> FALSE]
\* A line of the stream: a fragment {"response": f, "done": false}, the final
\* object {"response": "", "done": true}, a line that is not JSON, an empty
\* keep-alive line, JSON that is not an object (token_data.get raises), or bytes
\* that are not UTF-8 (line.decode raises UnicodeDecodeError).
LineKinds == { "frag", "final", "bad", "blank", "nonobj", "undecodable" }
\* requests.post / raise_for_status raise ConnectionError, Timeout or HTTPError;
\* iter_lines raises ConnectionError, or another exception (ChunkedEncodingError).
PostFailures == { "Connection", "Timeout", "HTTP" }
ReadFailures == { "Connection", "General" }
ErrorText(e) == "[" \o e \o " Error]"
ErrorTexts == { ErrorText(e) : e \in PostFailures \cup ReadFailures }

Msg(cb, w, arg) == [cb |-> cb, w |-> w, arg |-> arg]

RECURSIVE LinesUpTo(_)
LinesUpTo(k) == IF k = 0 THEN 0 ELSE workers[k].n + LinesUpTo(k - 1)
LinesDelivered == LinesUpTo(MaxSubmits)

\* ---------------------------------------------------------------- Init
\* Inside __init__, after create_widgets and before fetch_models.
Init ==
    /\ ui = "init"
    /\ values = <<>>
    /\ model_var = NoModel
    /\ active_model = NoneModel
    /\ prompt_entry = <<>>
    /\ chat_log = <<>>
    /\ current_stream_text = <<>>
    /\ output_box = <<>>
    /\ box_state = "disabled"
    /\ queue = <<>>
    /\ workers = [w \in WorkerIds |-> Unused]
    /\ nsub = 0
    /\ event = NoEvent

\* ---------------------------------------------------------------- UI thread
\* fetch_models; its only caller is __init__, which then enters mainloop.
fetch_models(resp) ==
    /\ ui = "init"
    /\ LET r == FetchModels(resp, Reg)
       IN  /\ values' = r.values
           /\ model_var' = r.model_var
           /\ active_model' = r.active_model
           /\ event' = Event("fetch_models", r.dialog)
    /\ ui' = "mainloop"
    /\ UNCHANGED <<prompt_entry, chat_log, current_stream_text, output_box,
                   box_state, queue, workers, nsub>>

\* The user picks entry m of the read-only combobox (which sets model_var);
\* <<ComboboxSelected>> runs on_model_select.
on_model_select(m) ==
    /\ ui = "mainloop"
    /\ model_var' = m
    /\ active_model' = m
    /\ event' = Event("on_model_select", "none")
    /\ UNCHANGED <<ui, values, prompt_entry, chat_log, current_stream_text,
                   output_box, box_state, queue, workers, nsub>>

\* The user edits the prompt entry (the Entry widget itself, no handler).
type_prompt(p) ==
    /\ ui = "mainloop"
    /\ p # prompt_entry
    /\ prompt_entry' = p
    /\ event' = NoEvent
    /\ UNCHANGED <<ui, registry, chat_log, current_stream_text, output_box,
                   box_state, queue, workers, nsub>>

send_prompt ==
    /\ ui = "mainloop"
    /\ LET prompt == Strip(prompt_entry)
           model == model_var
       IN  IF prompt = <<>>
           THEN /\ event' = Event("send_prompt", "none")
                /\ UNCHANGED <<prompt_entry, chat_log, current_stream_text,
                               output_box, box_state, workers, nsub>>
           ELSE IF model = NoModel
           THEN /\ event' = Event("send_prompt", "No Model Selected")
                /\ UNCHANGED <<prompt_entry, chat_log, current_stream_text,
                               output_box, box_state, workers, nsub>>
           ELSE /\ nsub < MaxSubmits
                /\ output_box' = AppendEntry(output_box, "You:", prompt, FALSE)
                /\ box_state' = "disabled"
                /\ chat_log' = chat_log \o <<"You:", NL>> \o prompt \o <<NL>>
                /\ prompt_entry' = <<>>
                /\ current_stream_text' = <<>>
                /\ nsub' = nsub + 1
                /\ workers' = [workers EXCEPT ![nsub + 1] =
                       [Unused EXCEPT !.pc = "start", !.model = model,
                                      !.prompt = prompt]]
                /\ event' = Event("send_prompt", "none")
    /\ UNCHANGED <<ui, registry, queue>>

\* clear_chat; yes is the user's answer to askyesno.
clear_chat(yes) ==
    /\ ui = "mainloop"
    /\ IF yes
       THEN /\ output_box' = <<>>
            /\ box_state' = "disabled"
            /\ chat_log' = <<>>
            /\ event' = Event("clear_chat", "Chat Cleared")
       ELSE /\ event' = Event("clear_chat", "none")
            /\ UNCHANGED <<output_box, box_state, chat_log>>
    /\ UNCHANGED <<ui, registry, prompt_entry, current_stream_text, queue,
                   workers, nsub>>

\* export_log; outcome: "cancel" (no file chosen), "ok", or "fail" (open or
\* write raised); file: what the chosen file held.
export_log(outcome, file) ==
    /\ ui = "mainloop"
    /\ CASE outcome = "cancel" -> event' = Event("export_log", "none")
         [] outcome = "ok" ->
                event' = [op |-> "export_log", dialog |-> "Export",
                          wrote |-> ExportWrite(file, chat_log)]
         [] OTHER -> event' = Event("export_log", "Export Error")
    /\ UNCHANGED <<ui, registry, prompt_entry, chat_log, current_stream_text,
                   output_box, box_state, queue, workers, nsub>>

\* The UI thread runs the oldest callback scheduled with self.after.
run_callback ==
    /\ ui = "mainloop"
    /\ queue # <<>>
    /\ LET m == Head(queue)
       IN  CASE m.cb = "header" ->
                    /\ output_box' = AppendEntry(output_box, "Ollama:", <<>>, TRUE)
                    /\ box_state' = "disabled"
             [] m.cb = "token" ->
                    /\ output_box' = InsertToken(output_box, m.arg)
                    /\ box_state' = "normal"
             [] m.cb = "error" ->
                    /\ output_box' = AppendError(output_box, m.arg)
                    /\ box_state' = "disabled"
             [] OTHER ->
                    /\ box_state' = "disabled"
                    /\ UNCHANGED output_box
    /\ queue' = Tail(queue)
    /\ event' = NoEvent
    /\ UNCHANGED <<ui, registry, prompt_entry, chat_log, current_stream_text,
                   workers, nsub>>

\* on_close: self.destroy() ends mainloop and with it the process; the daemon
\* threads and everything held in memory are gone.
on_close ==
    /\ ui = "mainloop"
    /\ ui' = "closed"
    /\ values' = <<>>
    /\ model_var' = NoModel
    /\ active_model' = NoneModel
    /\ prompt_entry' = <<>>
    /\ chat_log' = <<>>
    /\ current_stream_text' = <<>>
    /\ output_box' = <<>>
    /\ box_state' = "disabled"
    /\ queue' = <<>>
    /\ workers' = [w \in WorkerIds |-> Unused]
    /\ nsub' = 0
    /\ event' = Event("on_close", "none")

\* ---------------------------------------------------------------- worker thread
WorkerFrame == <<ui, registry, prompt_entry, output_box, box_state, nsub>>

PostFirst(m) ==
    /\ Len(queue) < MaxQueue
    /\ queue' = <<m>> \o queue

\* self.after(0, callback, ...) from the thread
Post(m) ==
    /\ Len(queue) < MaxQueue
    /\ queue' = Append(queue, m)

\* self.after(0, lambda: append_entry_to_chat_box("Ollama:", ...)), then
\* requests.post(...) and response.raise_for_status()
w_request(w) ==
    /\ ui = "mainloop"
    /\ workers[w].pc = "start"
    /\ Post(Msg("header", w, <<>>))
    /\ \/ workers' = [workers EXCEPT ![w].pc = "iter",
                         ![w].model = NoModel, ![w].prompt = <<>>]
       \/ \E e \in PostFailures :
              workers' = [workers EXCEPT ![w].pc = "except", ![w].err = e,
                             ![w].model = NoModel, ![w].prompt = <<>>]
    /\ event' = NoEvent
    /\ UNCHANGED <<WorkerFrame, chat_log, current_stream_text>>

\* iter_lines yields the next line. A well-formed one is parsed and the left
\* operand of  self.current_stream_text += token  is loaded; one that is not
\* JSON, or is empty, is passed over; on one whose JSON is no object .get
\* raises, on one that is not UTF-8 decode raises, and the except clause
\* (except Exception) schedules append_error_message.
read_line(w, k) ==
    /\ ui = "mainloop"
    /\ workers[w].pc = "iter"
    /\ LinesDelivered < MaxLines
    /\    CASE k = "frag" ->
                 /\ workers' = [workers EXCEPT ![w].pc = "store",
                                   ![w].n = @ + 1,
                                   ![w].token = <<Tok(w, workers[w].n + 1)>>,
                                   ![w].got = @ \o <<Tok(w, workers[w].n + 1)>>,
                                   ![w].tmp = current_stream_text]
                 /\ UNCHANGED queue
            [] k = "final" ->
                 /\ workers' = [workers EXCEPT ![w].pc = "store",
                                   ![w].n = @ + 1,
                                   ![w].token = <<>>,
                                   ![w].fin = TRUE,
                                   ![w].tmp = current_stream_text]
                 /\ UNCHANGED queue
            [] k \in { "bad", "blank" } ->
                 /\ workers' = [workers EXCEPT ![w].n = @ + 1]
                 /\ UNCHANGED queue
            [] OTHER ->
                 /\ Post(Msg("error", w, ErrorText("General")))
                 /\ workers' = [workers EXCEPT ![w].pc = "finalize",
                                   ![w].n = @ + 1, ![w].err = "posted"]
    /\ event' = NoEvent
    /\ UNCHANGED <<WorkerFrame, chat_log, current_stream_text>>

w_line(w) == \E k \in LineKinds : read_line(w, k)

\* the store of  self.current_stream_text += token,  then
\* self.after(0, self.update_output_box_streaming, token)
w_store(w) ==
    /\ ui = "mainloop"
    /\ workers[w].pc = "store"
    /\ current_stream_text' = workers[w].tmp \o workers[w].token
    /\ Post(Msg("token", w, workers[w].token))
    /\ workers' = [workers EXCEPT ![w].pc = "iter", ![w].tmp = <<>>,
                                  ![w].token = <<>>]
    /\ event' = NoEvent
    /\ UNCHANGED <<WorkerFrame, chat_log>>

w_read_fails_dies(w) ==
    /\ ui = "mainloop"
    /\ workers[w].pc = "iter"
    /\ \E e \in ReadFailures :
          /\ Post(Msg("error", w, ErrorText(e)))
          /\ workers' = [workers EXCEPT ![w].pc = "done", ![w].err = "posted",
                                        ![w].got = <<>>, ![w].fin = FALSE]
    /\ event' = NoEvent
    /\ UNCHANGED <<WorkerFrame, chat_log, current_stream_text>>

\* reading the stream raises; the except clause schedules append_error_message.
w_read_fails(w) ==
    /\ ui = "mainloop"
    /\ workers[w].pc = "iter"
    /\ \E e \in ReadFailures :
          /\ Post(Msg("error", w, ErrorText(e)))
          /\ workers' = [workers EXCEPT ![w].pc = "finalize",
                                        ![w].err = "posted"]
    /\ event' = NoEvent
    /\ UNCHANGED <<WorkerFrame, chat_log, current_stream_text>>

\* the stream ends; the operands of
\*   self.chat_log += f"Ollama:\n{self.current_stream_text}\n"   are loaded.
w_stream_ends(w) ==
    /\ ui = "mainloop"
    /\ workers[w].pc = "iter"
    /\ workers' = [workers EXCEPT ![w].pc = "log", ![w].tmp = chat_log,
                                  ![w].token = current_stream_text]
    /\ event' = NoEvent
    /\ UNCHANGED <<WorkerFrame, queue, chat_log, current_stream_text>>

\* the store of  self.chat_log += ...
w_log(w) ==
    /\ ui = "mainloop"
    /\ workers[w].pc = "log"
    /\ chat_log' = workers[w].tmp \o <<"Ollama:", NL>> \o workers[w].token \o <<NL>>
    /\ workers' = [workers EXCEPT ![w].pc = "finalize", ![w].tmp = <<>>,
                                  ![w].token = <<>>]
    /\ event' = NoEvent
    /\ UNCHANGED <<WorkerFrame, queue, current_stream_text>>

w_except_retries(w) ==
    /\ ui = "mainloop"
    /\ workers[w].pc = "except"
    /\ workers' = [workers EXCEPT ![w].pc = "start", ![w].err = "none"]
    /\ event' = NoEvent
    /\ UNCHANGED <<WorkerFrame, queue, chat_log, current_stream_text>>

\* the request failed: the except clause schedules append_error_message.
w_except(w) ==
    /\ ui = "mainloop"
    /\ workers[w].pc = "except"
    /\ Post(Msg("error", w, ErrorText(workers[w].err)))
    /\ workers' = [workers EXCEPT ![w].pc = "finalize", ![w].err = "posted"]
    /\ event' = NoEvent
    /\ UNCHANGED <<WorkerFrame, chat_log, current_stream_text>>

\* self.after(0, self.finalize_output_box); the thread ends.
w_finalize(w) ==
    /\ ui = "mainloop"
    /\ workers[w].pc = "finalize"
    /\ Post(Msg("finalize", w, <<>>))
    /\ workers' = [workers EXCEPT ![w].pc = "done", ![w].got = <<>>,
                                  ![w].fin = FALSE]
    /\ event' = NoEvent
    /\ UNCHANGED <<WorkerFrame, chat_log, current_stream_text>>

stream_response(w) ==
    \/ w_request(w)
    \/ w_line(w)
    \/ w_store(w)
    \/ w_read_fails(w)
    \/ w_stream_ends(w)
    \/ w_log(w)
    \/ w_except(w)
    \/ w_finalize(w)

\* ---------------------------------------------------------------- Next
\* The handlers and threads of a conversation: construction, the prompt entry,
\* Send, Clear Chat, the scheduled callbacks and the worker threads. The user
\* types the k-th prompt and confirms each Clear Chat.
NextChat ==
    \/ \E resp \in FetchResponses : fetch_models(resp)
    \/ type_prompt(<<Blank, PromptText(nsub + 1), Blank>>)
    \/ send_prompt
    \/ clear_chat(TRUE)
    \/ run_callback
    \/ \E w \in WorkerIds : stream_response(w)

\* The whole program, with every input.
Next ==
    \/ \E resp \in FetchResponses : fetch_models(resp)
    \/ \E i \in 1..Len(values) : on_model_select(values[i])
    \/ \E p \in PromptInputs(nsub + 1) : type_prompt(p)
    \/ send_prompt
    \/ \E yes \in BOOLEAN : clear_chat(yes)
    \/ \E outcome \in { "cancel", "ok", "fail" }, file \in OldFiles :
           export_log(outcome, file)
    \/ run_callback
    \/ on_close
    \/ \E w \in WorkerIds : stream_response(w)

Spec == Init /\ [][Next]_vars

\* Conversations of up to MaxSubmits prompts.
SpecChat == Init /\ [][NextChat]_vars

\* The whole program, with every input, in the sessions in which the user has
\* one prompt answered (send_prompt starts a thread only if none was started).
NextSingle ==
    \/ \E resp \in FetchResponses : fetch_models(resp)
    \/ \E i \in 1..Len(values) : on_model_select(values[i])
    \/ \E p \in PromptInputs(nsub + 1) : type_prompt(p)
    \/ send_prompt /\ (UNCHANGED workers \/ workers = [w \in WorkerIds |-> Unused])
    \/ \E yes \in BOOLEAN : clear_chat(yes)
    \/ \E outcome \in { "cancel", "ok", "fail" }, file \in OldFiles :
           export_log(outcome, file)
    \/ run_callback
    \/ on_close
    \/ \E w \in WorkerIds : stream_response(w)

SpecSingle == Init /\ [][NextSingle]_vars

\* The scheduling the liveness claims rely on: the OS runs every started thread
\* and mainloop runs every callback scheduled with self.after.
Fairness ==
    /\ WF_vars(run_callback)
    /\ \A w \in WorkerIds : WF_vars(stream_response(w))
FairSingle == SpecSingle /\ Fairness

\* Conversations of up to MaxSubmits prompts in which the user does not press
\* Clear Chat, under that scheduling.
NextTalk ==
    \/ \E resp \in FetchResponses : fetch_models(resp)
    \/ type_prompt(<<Blank, PromptText(nsub + 1), Blank>>)
    \/ send_prompt
    \/ run_callback
    \/ \E w \in WorkerIds : stream_response(w)
SpecTalk == Init /\ [][NextTalk]_vars
FairTalk == SpecTalk /\ Fairness

\* ================================================================ claims
InFlight(w) == workers[w].pc \notin { "unused", "done" }
Busy == \E w \in WorkerIds : InFlight(w)
IsPrefixSym(x) == x \in { "You:", "Ollama:" }
Prefixes(text) == SelectSeq(text, IsPrefixSym)
IsPromptSym(x) == x \in { PromptText(k) : k \in 1..MaxSubmits }
UserTexts(text) == SelectSeq(text, IsPromptSym)
IsBlank(s) == \A i \in 1..Len(s) : s[i] = Blank
FragmentsOf(w) == { Tok(w, n) : n \in 1..MaxLines }
Holds(text, syms) == \E i \in 1..Len(text) : text[i] \in syms
IsPrefixOf(s, t) == Len(s) <= Len(t) /\ SubSeq(t, 1, Len(s)) = s
EndsWith(t, s) ==
    Len(s) <= Len(t) /\ SubSeq(t, Len(t) - Len(s) + 1, Len(t)) = s
ErrorCallback == run_callback /\ Head(queue).cb = "error"

\* C1: send_prompt while a worker has not finished changes neither chat_log nor
\* the display and starts no worker.
C1_SubmitWhileBusyRejected ==
    [][(send_prompt /\ Busy) => UNCHANGED <<chat_log, output_box, workers>>]_vars

\* C2: at most one assistant turn is being streamed, and once its prefix is
\* displayed it is the last turn of the display.
HeaderShown(w) ==
    /\ workers[w].pc \notin { "unused", "start" }
    /\ \A i \in 1..Len(queue) : ~(queue[i].cb = "header" /\ queue[i].w = w)
C2_OneIncompleteTurnLast ==
    /\ Cardinality({ w \in WorkerIds : InFlight(w) }) <= 1
    /\ \A w \in WorkerIds :
          (InFlight(w) /\ HeaderShown(w)) =>
              LET ps == Prefixes(output_box)
              IN  ps # <<>> /\ ps[Len(ps)] = "Ollama:"

\* C3: a confirmed clear_chat while a worker has not finished leaves chat_log
\* and the display as they are.
C3_ClearWhileBusyRejected ==
    [][(clear_chat(TRUE) /\ Busy) => UNCHANGED <<chat_log, output_box>>]_vars

\* C4: no step of a stream_response thread writes chat_log or
\* current_stream_text.
C4_OnlyUiThreadWrites ==
    [][(\E w \in WorkerIds : stream_response(w))
          => UNCHANGED <<chat_log, current_stream_text>>]_vars

\* C5: once every submission has completed successfully, chat_log (when it holds
\* the user turn of every submission) is the alternation of one "You:" and one
\* "Ollama:" turn per submission.
Settled ==
    /\ nsub >= 1
    /\ queue = <<>>
    /\ \A w \in 1..nsub : workers[w].pc = "done" /\ workers[w].err = "none"
C5_OneTurnPairPerSubmission ==
    (Settled /\ UserTexts(chat_log) = [k \in 1..nsub |-> PromptText(k)])
        => Prefixes(chat_log) =
               [i \in 1..(2 * nsub) |-> IF i % 2 = 1 THEN "You:" ELSE "Ollama:"]

\* C6: when the stream of the first submission (made from Idle) ends cleanly,
\* the assistant turn added to chat_log holds exactly the fragments that stream
\* delivered, in order.
C6_AssistantTurnIsConcatenation ==
    [][w_log(1) =>
          EndsWith(chat_log', <<"Ollama:", NL>> \o workers[1].got \o <<NL>>)]_vars

C8_BlankPromptRejected ==
    [][(send_prompt /\ IsBlank(prompt_entry)) =>
          UNCHANGED <<chat_log, output_box, box_state, current_stream_text,
                      prompt_entry, workers, nsub, queue, registry>>]_vars
C8_Witness ==
    /\ event = Event("send_prompt", "none")
    /\ prompt_entry = <<Blank, Blank>>
    /\ model_var # NoModel

\* C9: export_log changes nothing but the file; a successful export writes
\* chat_log, the same text as the export just before it, and the empty text
\* right after a confirmed clear_chat.
ExportOk == \E f \in OldFiles : export_log("ok", f)
C9_ExportIsPureProjection ==
    [][
       /\ (\E o \in { "cancel", "ok", "fail" }, f \in OldFiles : export_log(o, f))
             => UNCHANGED <<ui, registry, prompt_entry, chat_log,
                            current_stream_text, output_box, box_state, queue,
                            workers, nsub>>
       /\ ExportOk => event'.wrote = chat_log
       /\ (ExportOk /\ event.dialog = "Export") => event'.wrote = event.wrote
       /\ (ExportOk /\ event = Event("clear_chat", "Chat Cleared"))
             => event'.wrote = <<>>]_vars
C9_Witness ==
    /\ event = [op |-> "export_log", dialog |-> "Export", wrote |-> <<>>]
    /\ nsub = 1
    /\ chat_log = <<>>

\* C10: fetch_models on a failed request (no connection, error status,
\* undecodable body) leaves the model list, the selection and the active model
\* as they were and raises an error messagebox.
C10_FailedFetchKeepsRegistry ==
    [][\A resp \in FetchFailures :
          fetch_models(resp) =>
              /\ UNCHANGED registry
              /\ event'.dialog \in { "Connection Error", "API Error",
                                      "JSON Error", "Model Fetch Error" }]_vars
C10_Witness ==
    /\ event = Event("fetch_models", "API Error")
    /\ values = <<>>
    /\ model_var = NoModel
    /\ active_model = NoneModel

\* C11: the selection (model_var), the active model and the model handed to a
\* worker thread are each unset or an entry of the list the last successful
\* fetch_models stored, an empty list included.
Listed(m) == \E i \in 1..Len(values) : values[i] = m
C11_ActiveModelIsListed ==
    /\ model_var = NoModel \/ Listed(model_var)
    /\ active_model = NoneModel \/ Listed(active_model)
    /\ \A w \in WorkerIds : workers[w].model = NoModel \/ Listed(workers[w].model)
    /\ values = <<>> => (model_var = NoModel /\ active_model = NoneModel)
C11_Witness ==
    /\ values = <<"m1", "m2">>
    /\ active_model = "m2"
    /\ workers[1].pc = "start"
    /\ workers[1].model = "m2"

\* C12: a submission that failed (on the request or while reading the stream)
\* does not stay in flight: its thread ends, its finalize callback is scheduled
\* behind its error message and has not run when the error message is
\* displayed, the display is read-only once nothing is in flight or scheduled,
\* and a Send after the failure starts a new thread.
Failed(w) == workers[w].err # "none"
Pending(w) == \E i \in 1..Len(queue) : queue[i].w = w
Over(w) == workers[w].pc = "done" /\ ~Pending(w)
Quiet == queue = <<>> /\ \A w \in WorkerIds : ~InFlight(w)
Sendable == ui = "mainloop" /\ Strip(prompt_entry) # <<>> /\ model_var # NoModel
C12_FailureReturnsToIdle ==
    /\ \A w \in WorkerIds :
          Failed(w) ~> (ui = "closed" \/ (Over(w) /\ Quiet /\ box_state = "disabled"))
    /\ [](Quiet => box_state = "disabled")
    /\ [](\A w \in WorkerIds : \A i, j \in 1..Len(queue) :
             (i < j /\ queue[i].w = w /\ queue[j].w = w /\ queue[i].cb = "error")
                 => queue[j].cb = "finalize")
    /\ [][
         /\ ErrorCallback =>
               \/ workers[Head(queue).w].pc = "finalize"
               \/ \E i \in 2..Len(queue) :
                      queue[i] = Msg("finalize", Head(queue).w, <<>>)
         /\ (send_prompt /\ Sendable /\ \E w \in WorkerIds : Failed(w) /\ Over(w))
               => /\ nsub' = nsub + 1
                  /\ workers'[nsub'].pc = "start"
                  /\ EndsWith(chat_log', <<"You:", NL>> \o Strip(prompt_entry) \o <<NL>>)]_vars
C12_Witness ==
    /\ workers[1].err = "posted"
    /\ Over(1)
    /\ box_state = "disabled"
    /\ workers[2].pc = "start"
    /\ Holds(output_box, ErrorTexts)

\* C13: once a thread has received a line with "done": true, no later line of
\* its stream adds a fragment to the assistant turn.
C13_NothingAfterDone ==
    [][\A w \in WorkerIds :
          (w_line(w) /\ workers[w].fin) =>
              /\ workers'[w].got = workers[w].got
              /\ workers'[w].pc # "store"]_vars

\* C14: for each submission, the fragments displayed, then those scheduled,
\* then the one in the thread's hands are the fragments received, in order; a
\* step changes that sequence only by receiving the next fragment; among the
\* scheduled callbacks of one submission the header comes first, nothing but
\* finalize follows the error message and nothing follows finalize; and no
\* fragment is displayed while the header is still to be applied.
RECURSIVE QueuedTokens(_, _)
QueuedTokens(q, w) ==
    IF q = <<>> THEN <<>>
    ELSE (IF Head(q).cb = "token" /\ Head(q).w = w THEN Head(q).arg ELSE <<>>)
             \o QueuedTokens(Tail(q), w)
Applied(w) ==
    LET fs == FragmentsOf(w)
        Mine(x) == x \in fs
    IN  SelectSeq(output_box, Mine)
InHand(w) == IF workers[w].pc = "store" THEN workers[w].token ELSE <<>>
Flow(w) == Applied(w) \o QueuedTokens(queue, w) \o InHand(w)
QueueOrdered(w) ==
    \A i, j \in 1..Len(queue) :
        (i < j /\ queue[i].w = w /\ queue[j].w = w) =>
            /\ queue[j].cb # "header"
            /\ queue[i].cb # "finalize"
            /\ queue[i].cb = "error" => queue[j].cb = "finalize"
C14_OrderedDispatch ==
    /\ [](\A w \in WorkerIds :
             /\ InFlight(w) => Flow(w) = workers[w].got
             /\ QueueOrdered(w)
             /\ Applied(w) # <<>> => HeaderShown(w)
             /\ (workers[w].pc \in { "finalize", "done" }) => InHand(w) = <<>>)
    /\ [][\A w \in WorkerIds :
             \/ Flow(w)' = Flow(w)
             \/ /\ workers[w].pc = "iter" /\ workers'[w].pc = "store"
                /\ workers'[w].n = workers[w].n + 1
                /\ Flow(w)' = Flow(w) \o <<Tok(w, workers'[w].n)>>]_vars
C14_Witness ==
    /\ Applied(1) = <<Tok(1, 1)>>
    /\ QueuedTokens(queue, 1) = <<Tok(1, 2)>>
    /\ queue[Len(queue)] = Msg("finalize", 1, <<>>)
    /\ workers[1].pc = "done"

\* C15: a line that does not parse as JSON (text that is not JSON, or bytes
\* that are not UTF-8 text at all) is passed over: the thread stays in its
\* loop, schedules nothing, and the texts and the display are unchanged.
C15_UnparsableLineSkipped ==
    [][\A w \in WorkerIds :
          (read_line(w, "bad") \/ read_line(w, "undecodable")) =>
              /\ workers' = [workers EXCEPT ![w].n = @ + 1]
              /\ UNCHANGED <<queue, current_stream_text, chat_log, output_box,
                             box_state>>]_vars

\* C16: a thread issues its request once and never goes back to it; the error
\* messages scheduled or displayed are one for each failed submission, each
\* scheduled in the step that handles the exception; and no fragment of a
\* submission is displayed once its error message has been displayed.
IsErrorSym(x) == x \in ErrorTexts
IsErrorMsg(m) == m.cb = "error"
ErrorsShown == Len(SelectSeq(output_box, IsErrorSym))
ErrorsQueued == Len(SelectSeq(queue, IsErrorMsg))
ErrorPending(w) ==
    \E i \in 1..Len(queue) : queue[i].cb = "error" /\ queue[i].w = w
TokenCallback == run_callback /\ Head(queue).cb = "token"
C16_FailureSurfacesOnce ==
    /\ [](ErrorsShown + ErrorsQueued =
              Cardinality({ w \in WorkerIds : workers[w].err = "posted" }))
    /\ [][
         /\ \A w \in WorkerIds :
               /\ workers'[w].pc = "start" => workers[w].pc \in { "unused", "start" }
               /\ (workers[w].pc = "start" /\ workers'[w].pc # "start")
                      => w_request(w)
               /\ workers[w].err = "posted" =>
                      /\ workers'[w].err = "posted"
                      /\ ErrorPending(w)' => ErrorPending(w)
                      /\ workers'[w].pc \in { "finalize", "done" }
               /\ (workers[w].err # "posted" /\ workers'[w].err = "posted")
                      => queue' = Append(queue, Msg("error", w, queue'[Len(queue')].arg))
         /\ TokenCallback =>
               (workers[Head(queue).w].err = "posted" => ErrorPending(Head(queue).w))
       ]_vars
C16_Witness ==
    /\ workers[1].err = "posted"
    /\ workers[1].pc = "done"
    /\ queue = <<>>
    /\ ErrorsShown = 1
    /\ output_box[Len(output_box)] = ErrorText("Timeout")
    /\ nsub = 1

\* C17: from the step in which a submission fails until its finalize callback
\* has run, chat_log only grows: what it held stays, unchanged and in order
\* (a confirmed Clear Chat and closing the window aside).
InErrorPath(w) == (Failed(w) \/ Failed(w)') /\ ~Over(w)
C17_FailureKeepsTranscript ==
    [][((\E w \in WorkerIds : InErrorPath(w)) /\ ~clear_chat(TRUE) /\ ~on_close)
          => IsPrefixOf(chat_log, chat_log')]_vars

\* C18: the text a thread puts in the assistant block it writes to chat_log is
\* the sequence of fragments its own stream delivered, whatever the other
\* threads and the UI thread did meanwhile.
C18_BlockHoldsOwnFragments ==
    [][\A w \in WorkerIds :
          w_log(w) =>
              /\ workers[w].token = workers[w].got
              /\ EndsWith(chat_log', <<"Ollama:", NL>> \o workers[w].got \o <<NL>>)
      ]_vars
====
